---- MODULE Spec2Model ----
(***************************************************************************)
(* Model of cdoc2json (src/main.go, the extractor) and addcdocs            *)
(* (src/cmd/addcdocs/main.go, the injector).                               *)
(*                                                                         *)
(* A Go string is a sequence of one-character strings, so that splitting,  *)
(* joining, prefix tests and slicing are computed as the code computes     *)
(* them.  A source position is [Line, Col], both 1-based; the File field   *)
(* of cc.Location is never read by this repository and is left out.        *)
(* Line numbers are uint32 in the code; a scanned line is at least 1 and   *)
(* the one subtraction of two lines (addDocComments) is reached only when  *)
(* the declaration is not before the comment's end, so nothing wraps and   *)
(* the arithmetic is that of the integers.                                 *)
(***************************************************************************)
EXTENDS Integers, Sequences, FiniteSets, TLC

VARIABLES
  pc,                \* position of the running program
  src,               \* text of the source file being processed
  root,              \* file.Root, the tree the external parser returned
  comments,          \* parse: result of parseComments
  merged,            \* parse: comments after mergeLineComments
  decls,             \* extractor: result of findDecls
  globalDecls,       \* injector: result of findGlobalDecls
  docComments,       \* parse: result of addDocComments
  commentFromIdent,  \* extractor main: map from identifier to comment
  warned,            \* extractor: the conflict warnings logged, in order
  stores,            \* extractor: one record per store into commentFromIdent
  err,               \* the error the last call returned ("nil" when none)
  fileNo,            \* number of source paths already taken from flag.Args()
  output,            \* extractor: the JSON output file (written, its content)
  jsonDocs,          \* injector main: docComments loaded from the JSON file
  newSrc,            \* addComments: the text returned
  change,            \* addComments: the flag returned
  wrote,             \* injector main: whether ioutil.WriteFile ran for the file
  comment,           \* a stored comment handed to normalizeComment
  normalized         \* result of normalizeComment

vars == <<pc, src, root, comments, merged, decls, globalDecls, docComments,
          commentFromIdent, warned, stores, err, fileNo, output, jsonDocs, newSrc,
          change, wrote, comment, normalized>>

(***************************************************************************)
(* Bounds of the model.                                                    *)
(***************************************************************************)
MaxLines == 3        \* lines of a source text
MaxFiles == 3        \* source paths on the extractor's command line
MaxInjFiles == 2     \* source paths on the injector's command line
MaxKids == 3         \* children of the root of a drawn declaration tree
MaxCommentLen == 6   \* characters of a drawn stored comment

NL == "\n"

(***************************************************************************)
(* strings                                                                 *)
(***************************************************************************)
RECURSIVE Count(_, _)
Count(s, ch) ==
  IF s = <<>> THEN 0
  ELSE (IF Head(s) = ch THEN 1 ELSE 0) + Count(Tail(s), ch)

HasPrefix(s, prefix) ==
  /\ Len(s) >= Len(prefix)
  /\ SubSeq(s, 1, Len(prefix)) = prefix

\* strings.Split(s, "\n"): always at least one element; n separators give
\* n+1 elements.
RECURSIVE SplitFrom(_, _, _)
SplitFrom(s, cur, acc) ==
  IF s = <<>> THEN Append(acc, cur)
  ELSE IF Head(s) = NL THEN SplitFrom(Tail(s), <<>>, Append(acc, cur))
  ELSE SplitFrom(Tail(s), Append(cur, Head(s)), acc)

Split(s) == SplitFrom(s, <<>>, <<>>)

\* strings.Join(lines, "\n")
RECURSIVE Join(_)
Join(lines) ==
  IF lines = <<>> THEN <<>>
  ELSE IF Len(lines) = 1 THEN lines[1]
  ELSE lines[1] \o <<NL>> \o Join(Tail(lines))

(***************************************************************************)
(* positions                                                               *)
(***************************************************************************)
less(a, b) ==
  IF a.Line < b.Line THEN TRUE
  ELSE IF a.Line > b.Line THEN FALSE
  ELSE a.Col < b.Col

\* fset.Position(p): line and column of the 1-based offset off in text.
Position(text, off) ==
  LET before == SubSeq(text, 1, off - 1)
      nls == {k \in 1..(off - 1) : text[k] = NL}
      lineStart == IF nls = {} THEN 0 ELSE CHOOSE k \in nls : \A m \in nls : m <= k
  IN [Line |-> 1 + Count(before, NL), Col |-> off - lineStart]

\* sort.Slice(xs, less on Loc), as an insertion sort; the order of elements
\* with equal Loc is not specified by sort.Slice and no input here has any.
RECURSIVE InsertByLoc(_, _)
InsertByLoc(sorted, x) ==
  IF sorted = <<>> THEN <<x>>
  ELSE IF less(x.Loc, Head(sorted).Loc) THEN <<x>> \o sorted
  ELSE <<Head(sorted)>> \o InsertByLoc(Tail(sorted), x)

RECURSIVE SortByLoc(_)
SortByLoc(xs) ==
  IF xs = <<>> THEN <<>>
  ELSE InsertByLoc(SortByLoc(SubSeq(xs, 1, Len(xs) - 1)), xs[Len(xs)])

(***************************************************************************)
(* parseComments: go/scanner in ScanComments mode over the file text.      *)
(* Only COMMENT tokens are kept; every other token is skipped.             *)
(***************************************************************************)
\* End of a //-comment starting at off: the offset of the next newline, or
\* one past the end of the text.  The newline is not part of the literal.
LineCommentEnd(text, off) ==
  LET nls == {k \in (off + 2)..Len(text) : text[k] = NL}
  IN IF nls = {} THEN Len(text) + 1 ELSE CHOOSE k \in nls : \A m \in nls : k <= m

\* End of a /*-comment starting at off: one past the first "*/" that begins
\* at or after off+2, or one past the end of the text when the comment is
\* not terminated (the scanner reports the error and returns what is left).
BlockCommentEnd(text, off) ==
  LET ends == {k \in (off + 2)..(Len(text) - 1) : text[k] = "*" /\ text[k + 1] = "/"}
  IN IF ends = {} THEN Len(text) + 1
     ELSE (CHOOSE k \in ends : \A m \in ends : k <= m) + 2

RECURSIVE Scan(_, _, _)
Scan(text, off, acc) ==
  IF off > Len(text) THEN acc
  ELSE IF text[off] = "/" /\ off < Len(text) /\ text[off + 1] = "/" THEN
    LET end == LineCommentEnd(text, off)
    IN Scan(text, end,
            Append(acc, [Lit |-> SubSeq(text, off, end - 1), Loc |-> Position(text, off)]))
  ELSE IF text[off] = "/" /\ off < Len(text) /\ text[off + 1] = "*" THEN
    LET end == BlockCommentEnd(text, off)
    IN Scan(text, end,
            Append(acc, [Lit |-> SubSeq(text, off, end - 1), Loc |-> Position(text, off)]))
  ELSE Scan(text, off + 1, acc)

parseComments(text) == SortByLoc(Scan(text, 1, <<>>))

(***************************************************************************)
(* mergeLineComments                                                       *)
(***************************************************************************)
isConsequtiveLineComments(a, b) ==
  IF ~HasPrefix(a.Lit, <<"/", "/">>) THEN FALSE
  ELSE IF ~HasPrefix(b.Lit, <<"/", "/">>) THEN FALSE
  ELSE a.Loc.Line + Count(a.Lit, NL) = b.Loc.Line - 1

mergeLineComment(a, b) == [a EXCEPT !.Lit = a.Lit \o <<NL>> \o b.Lit]

\* The inner loop over j of mergeLineComments: it runs to the end of the
\* slice and increments the outer index i at every merge.
RECURSIVE MergeInner(_, _, _, _)
MergeInner(cs, a, i, j) ==
  IF j > Len(cs) THEN [a |-> a, i |-> i]
  ELSE IF isConsequtiveLineComments(a, cs[j])
       THEN MergeInner(cs, mergeLineComment(a, cs[j]), i + 1, j + 1)
       ELSE MergeInner(cs, a, i, j + 1)

RECURSIVE MergeOuter(_, _, _)
MergeOuter(cs, i, new) ==
  IF i > Len(cs) THEN new
  ELSE LET r == MergeInner(cs, cs[i], i, i + 1)
       IN MergeOuter(cs, r.i + 1, Append(new, r.a))

mergeLineComments(cs) == MergeOuter(cs, 1, <<>>)

(***************************************************************************)
(* The external parser (cc.ParseFile, a clang front end) is not part of    *)
(* the repository.  It is modelled by what the code relies on: a tree of   *)
(* nodes with a kind, a spelled name, a location and children.  For a      *)
(* source text, every identifier x or y outside a comment is a top-level   *)
(* variable declaration at its own position.                               *)
(***************************************************************************)
Idents == {"x", "y"}

Node(kind, spelling, loc, children) ==
  [Kind |-> kind, Spelling |-> spelling, Loc |-> loc, Children |-> children]

NoLoc == [Line |-> 0, Col |-> 0]

RECURSIVE DeclScan(_, _, _)
DeclScan(text, off, acc) ==
  IF off > Len(text) THEN acc
  ELSE IF text[off] = "/" /\ off < Len(text) /\ text[off + 1] = "/"
       THEN DeclScan(text, LineCommentEnd(text, off), acc)
  ELSE IF text[off] = "/" /\ off < Len(text) /\ text[off + 1] = "*"
       THEN DeclScan(text, BlockCommentEnd(text, off), acc)
  ELSE IF text[off] \in Idents
       THEN DeclScan(text, off + 1,
                     Append(acc, Node("VarDecl", text[off], Position(text, off), <<>>)))
  ELSE DeclScan(text, off + 1, acc)

ParseFile(text) == Node("TranslationUnit", "", NoLoc, DeclScan(text, 1, <<>>))

\* cc.Walk(root, visit): every node of the tree, top down.
RECURSIVE Walk(_)
RECURSIVE WalkAll(_)
Walk(n) == <<n>> \o WalkAll(n.Children)
WalkAll(ns) == IF ns = <<>> THEN <<>> ELSE Walk(Head(ns)) \o WalkAll(Tail(ns))

IsDeclKind(n) == n.Kind \in {"VarDecl", "FunctionDecl"}

(***************************************************************************)
(* findDecls (extractor)                                                   *)
(***************************************************************************)
\* Mutant of findDecls: only the children of the root are looked at.
findDeclsTopLevel(r) == SortByLoc(SelectSeq(r.Children, IsDeclKind))

findDecls(r) == SortByLoc(SelectSeq(Walk(r), IsDeclKind))

(***************************************************************************)
(* addDocComments                                                          *)
(***************************************************************************)
CommEndLoc(c) == [Line |-> c.Loc.Line + Count(c.Lit, NL), Col |-> c.Loc.Col]

\* d is the index of the declaration of the outer loop, i the comment
\* cursor; "continue loop" moves to the next declaration and keeps i.
RECURSIVE AddDoc(_, _, _, _, _)
AddDoc(ds, cs, d, i, acc) ==
  IF d > Len(ds) THEN acc
  ELSE IF i > Len(cs) THEN AddDoc(ds, cs, d + 1, i, acc)
  ELSE IF less(ds[d].Loc, CommEndLoc(cs[i])) THEN AddDoc(ds, cs, d + 1, i, acc)
  ELSE IF ds[d].Loc.Line - CommEndLoc(cs[i]).Line <= 1
       THEN AddDoc(ds, cs, d, i + 1, Append(acc, [Decl |-> ds[d], Comment |-> cs[i]]))
       ELSE AddDoc(ds, cs, d, i + 1, acc)

addDocComments(ds, cs) == AddDoc(ds, cs, 1, 1, <<>>)

(***************************************************************************)
(* parse: the loop that stores the doc comments in commentFromIdent        *)
(***************************************************************************)
EmptyMap == [k \in {} |-> <<>>]

MapPut(m, ident, new) == [k \in DOMAIN m \cup {ident} |-> IF k = ident THEN new ELSE m[k]]

\* Mutant of StoreWarns: no warning when the value held equals the new one.
StoreWarnsIfDifferent(m, ident, new) == ident \in DOMAIN m /\ m[ident] # new

\* The test of src/main.go 79: a warning is logged when the identifier is
\* already a key of the map.
StoreWarns(m, ident, new) == ident \in DOMAIN m

\* One iteration of the loop over docComments (src/main.go 77-82).  st.m is
\* commentFromIdent, st.w the warnings logged, st.s the record of the stores.
Store(st, dc) ==
  LET ident == dc.Decl.Spelling
      new == dc.Comment.Lit
      had == ident \in DOMAIN st.m
      old == IF had THEN st.m[ident] ELSE <<>>
      warns == StoreWarns(st.m, ident, new)
      m2 == MapPut(st.m, ident, new)
  IN [m |-> m2,
      w |-> IF warns THEN Append(st.w, [ident |-> ident, old |-> old, new |-> new])
            ELSE st.w,
      s |-> Append(st.s, [ident |-> ident, new |-> new, had |-> had, old |-> old,
                          warns |-> warns, after |-> m2[ident]])]

RECURSIVE StoreAll(_, _)
StoreAll(st, dcs) ==
  IF dcs = <<>> THEN st ELSE StoreAll(Store(st, Head(dcs)), Tail(dcs))

\* parse (src/main.go 61-86) on a readable, parsable file: its locals and
\* the map, warnings and stores it leaves.
parse(text, st) ==
  LET cs == parseComments(text)
      ms == mergeLineComments(cs)
      r == ParseFile(text)
      ds == findDecls(r)
      dcs == addDocComments(ds, ms)
  IN [comments |-> cs, merged |-> ms, root |-> r, decls |-> ds,
      docComments |-> dcs, st |-> StoreAll(st, dcs)]

(***************************************************************************)
(* Source texts: up to MaxLines lines, each ended by a newline.            *)
(***************************************************************************)
LnBlank == <<>>
LnLine == <<"/", "/", "a">>                       \* //a
LnDoc == <<"/", "/", "/", "a">>                   \* ///a
LnBlock == <<"/", "*", "a", "*", "/">>            \* /*a*/
LnOpen == <<"/", "*", "a">>                       \* /*a   (comment left open)
LnClose == <<"a", "*", "/", "x">>                 \* a*/x  (closes it; declares x)
LnX == <<"x">>
LnY == <<"y">>

SrcLines ==
  { LnBlank, LnLine, LnDoc, LnBlock,
    LnBlock \o LnLine,                            \* /*a*///a
    LnBlock \o LnBlock,                           \* /*a*//*a*/
    LnOpen, LnClose, LnX, LnY,
    LnX \o LnLine }                               \* x//a

RECURSIVE TextOf(_)
TextOf(lines) ==
  IF lines = <<>> THEN <<>> ELSE Head(lines) \o <<NL>> \o TextOf(Tail(lines))

Texts == {TextOf(ls) : ls \in UNION {[1..n -> SrcLines] : n \in 0..MaxLines}}

(***************************************************************************)
(* Values of the variables a specification does not use.                   *)
(***************************************************************************)
IdleParse ==
  /\ root = Node("TranslationUnit", "", NoLoc, <<>>)
  /\ comments = <<>>
  /\ merged = <<>>
  /\ decls = <<>>
  /\ globalDecls = <<>>
  /\ docComments = <<>>

IdleExtract ==
  /\ commentFromIdent = EmptyMap
  /\ warned = <<>>
  /\ stores = <<>>
  /\ err = "nil"
  /\ fileNo = 0
  /\ output = [written |-> FALSE, json |-> [k \in {} |-> <<>>]]

IdleInject ==
  /\ jsonDocs = EmptyMap
  /\ newSrc = <<>>
  /\ change = FALSE
  /\ wrote = FALSE

IdleNorm ==
  /\ comment = <<>>
  /\ normalized = <<>>

parseVars == <<root, comments, merged, decls, globalDecls, docComments>>
extractVars == <<commentFromIdent, warned, stores, err, fileNo, output>>
injectVars == <<jsonDocs, newSrc, change, wrote>>
normVars == <<comment, normalized>>

(***************************************************************************)
(* SpecParse: parse (src/main.go 61-86) applied to one source text with an *)
(* empty commentFromIdent.  The locals of parse are kept in the state.     *)
(***************************************************************************)
InitParse ==
  /\ pc = "parse"
  /\ src \in Texts
  /\ IdleParse /\ IdleExtract /\ IdleInject /\ IdleNorm

Parse ==
  /\ pc = "parse"
  /\ LET p == parse(src, [m |-> commentFromIdent, w |-> warned, s |-> stores])
     IN /\ comments' = p.comments
        /\ merged' = p.merged
        /\ root' = p.root
        /\ decls' = p.decls
        /\ docComments' = p.docComments
        /\ commentFromIdent' = p.st.m
        /\ warned' = p.st.w
        /\ stores' = p.st.s
  /\ pc' = "parsed"
  /\ UNCHANGED <<src, err, fileNo, output, globalDecls, injectVars, normVars>>

NextParse == Parse

SpecParse == InitParse /\ [][NextParse]_vars

(***************************************************************************)
(* SpecExtract: main of the extractor (src/main.go 35-59).  Each source    *)
(* path names one of SrcFiles; the number of paths is at most MaxFiles.    *)
(***************************************************************************)
SrcFiles ==
  { TextOf(<<LnX>>),
    TextOf(<<LnLine, LnX>>),
    TextOf(<<LnDoc, LnX>>),
    TextOf(<<LnBlock, LnY>>),
    TextOf(<<LnLine, LnLine, LnY, LnBlank, LnX>>),
    TextOf(<<LnLine, LnX, LnBlank, LnLine, LnX>>) }

NotWritten == [written |-> FALSE, json |-> EmptyMap]

InitExtract ==
  /\ pc = "loop"
  /\ src = <<>>
  /\ commentFromIdent = EmptyMap
  /\ warned = <<>>
  /\ stores = <<>>
  /\ err = "nil"
  /\ fileNo = 0
  /\ output = NotWritten
  /\ IdleParse /\ IdleInject /\ IdleNorm

\* parse returned nil for the next source path.
ParseOk ==
  /\ pc = "loop"
  /\ fileNo < MaxFiles
  /\ \E f \in SrcFiles :
       LET p == parse(f, [m |-> commentFromIdent, w |-> warned, s |-> stores])
       IN /\ src' = f
          /\ commentFromIdent' = p.st.m
          /\ warned' = p.st.w
          /\ stores' = p.st.s
  /\ err' = "nil"
  /\ fileNo' = fileNo + 1
  /\ pc' = "loop"
  /\ UNCHANGED <<output, parseVars, injectVars, normVars>>

\* Mutant of OnParseError: the error is logged and the loop goes on.
OnParseErrorContinue == "loop"

\* What main does with an error returned by parse: log.Fatalf (src/main.go 52).
OnParseError == "fatal"

\* parse returned an error for the next source path: the file could not be
\* read (src/main.go 63-66) or the external parser failed (69-72).  Nothing
\* has been stored for the file.
ParseErr ==
  /\ pc = "loop"
  /\ fileNo < MaxFiles
  /\ \E f \in SrcFiles : src' = f
  /\ \E e \in {"read", "clang"} : err' = e
  /\ fileNo' = fileNo + 1
  /\ pc' = OnParseError
  /\ UNCHANGED <<commentFromIdent, warned, stores, output, parseVars, injectVars, normVars>>

\* The source paths are exhausted: jsonutil.WriteFile, fatal when it fails.
WriteFile ==
  /\ pc = "loop"
  /\ \E ok \in BOOLEAN :
       IF ok
       THEN /\ output' = [written |-> TRUE, json |-> commentFromIdent]
            /\ pc' = "done"
            /\ err' = err
       ELSE /\ output' = output
            /\ pc' = "fatal"
            /\ err' = "write"
  /\ UNCHANGED <<src, commentFromIdent, warned, stores, fileNo, parseVars, injectVars, normVars>>

NextExtract == ParseOk \/ ParseErr \/ WriteFile

SpecExtract == InitExtract /\ [][NextExtract]_vars

(***************************************************************************)
(* The injector, src/cmd/addcdocs/main.go.                                 *)
(***************************************************************************)
\* Mutant of NormalizeLine: every leading slash of a /// line but one is
\* dropped (two characters removed).
NormalizeLineTwo(line) ==
  IF HasPrefix(line, <<"/", "/", "/">>) THEN SubSeq(line, 3, Len(line)) ELSE line

\* normalizeComment: one line of the comment (src/cmd/addcdocs/main.go
\* 107-110).
NormalizeLine(line) ==
  IF HasPrefix(line, <<"/", "/", "/">>) THEN SubSeq(line, 2, Len(line)) ELSE line

normalizeComment(c) ==
  LET lines == Split(c)
  IN Join([i \in 1..Len(lines) |-> NormalizeLine(lines[i])])

\* findGlobalDecls: the last child of the root that is a namespace replaces
\* the root; the variable and function declarations among the children of
\* that node are returned, in the order of the tree.
LastNamespace(r, k) ==
  LET ns == {i \in 1..k : r.Children[i].Kind = "Namespace"}
  IN IF ns = {} THEN r ELSE r.Children[CHOOSE i \in ns : \A j \in ns : j <= i]

findGlobalDecls(r) == SelectSeq(LastNamespace(r, Len(r.Children)).Children, IsDeclKind)

\* The loop of addComments over decls (src/cmd/addcdocs/main.go 86-91): the
\* map from line number to normalized comment; a later declaration on the
\* same line overwrites an earlier one.
RECURSIVE LineComments(_, _, _)
LineComments(ds, docs, acc) ==
  IF ds = <<>> THEN acc
  ELSE LET d == Head(ds)
       IN IF d.Spelling \in DOMAIN docs
          THEN LineComments(Tail(ds), docs,
                            MapPut(acc, d.Loc.Line, normalizeComment(docs[d.Spelling])))
          ELSE LineComments(Tail(ds), docs, acc)

\* Mutant of Emit: the comment is written after its line.
RECURSIVE EmitAfter(_, _, _, _)
EmitAfter(lines, i, cm, acc) ==
  IF i > Len(lines) THEN acc
  ELSE EmitAfter(lines, i + 1, cm,
                 acc \o lines[i] \o <<NL>> \o (IF i \in DOMAIN cm THEN cm[i] \o <<NL>> ELSE <<>>))

\* The loop of addComments over lines (src/cmd/addcdocs/main.go 93-99).
RECURSIVE Emit(_, _, _, _)
Emit(lines, i, cm, acc) ==
  IF i > Len(lines) THEN acc
  ELSE Emit(lines, i + 1, cm,
            (IF i \in DOMAIN cm THEN acc \o cm[i] \o <<NL>> ELSE acc) \o lines[i] \o <<NL>>)

addComments(buf, r, docs) ==
  LET lines == Split(buf)
      cm == LineComments(findGlobalDecls(r), docs, [k \in {} |-> <<>>])
      new == Emit(lines, 1, cm, <<>>)
  IN [src |-> new, change |-> buf # new]

\* The stored comments a JSON file may hold for an identifier.
StoredComments ==
  { LnLine,                                       \* //a
    LnDoc \o <<NL>> \o LnDoc,                     \* ///a\n///a
    <<"/", "*", "a", NL, "a", "*", "/">> }        \* /*a\na*/

JsonMaps == UNION {[ids -> StoredComments] : ids \in SUBSET Idents}

\* Lines of the files the injector rewrites.
InjLines == { LnBlank, LnLine, LnX, LnY, <<"x", " ", "y">> }

InjTexts == {TextOf(ls) : ls \in UNION {[1..n -> InjLines] : n \in 0..MaxLines}}

\* The tree the external parser hands back when it fails part way: the
\* first n top-level nodes.
Partial(r, n) == [r EXCEPT !.Children = SubSeq(r.Children, 1, n)]

(***************************************************************************)
(* SpecInject: main of the injector (src/cmd/addcdocs/main.go 39-75).      *)
(***************************************************************************)
InitInject ==
  /\ pc = "start"
  /\ src = <<>>
  /\ err = "nil"
  /\ fileNo = 0
  /\ IdleInject /\ IdleParse /\ IdleNorm
  /\ commentFromIdent = EmptyMap /\ warned = <<>> /\ stores = <<>>
  /\ output = NotWritten

\* parseDocComments: the JSON file is decoded, or the run ends.
ParseDocComments ==
  /\ pc = "start"
  /\ \/ \E m \in JsonMaps : jsonDocs' = m /\ pc' = "loop" /\ err' = "nil"
     \/ jsonDocs' = jsonDocs /\ pc' = "fatal" /\ err' = "json"
  /\ UNCHANGED <<src, fileNo, newSrc, change, wrote, parseVars, commentFromIdent,
                 warned, stores, output, normVars>>

\* parseSourceFile for the next source path: the file is read and parsed.
\* When the external parser fails the error is logged and main goes on with
\* the partial tree.
ParseSourceFile ==
  /\ pc = "loop"
  /\ fileNo < MaxInjFiles
  /\ \E text \in InjTexts :
       /\ src' = text
       /\ \/ root' = ParseFile(text) /\ err' = "nil"
          \/ \E n \in 0..Len(ParseFile(text).Children) :
               root' = Partial(ParseFile(text), n) /\ err' = "clang"
  /\ pc' = "add"
  /\ newSrc' = <<>> /\ change' = FALSE /\ wrote' = FALSE
  /\ globalDecls' = <<>>
  /\ UNCHANGED <<fileNo, jsonDocs, comments, merged, decls, docComments,
                 commentFromIdent, warned, stores, output, normVars>>

\* parseSourceFile could not read the file: srcFile.File stays nil, the
\* error is logged, and addComments dereferences the nil file.
ParseSourceFileUnreadable ==
  /\ pc = "loop"
  /\ fileNo < MaxInjFiles
  /\ err' = "read"
  /\ pc' = "panic"
  /\ UNCHANGED <<src, fileNo, injectVars, parseVars, commentFromIdent, warned,
                 stores, output, normVars>>

\* addComments on the parsed file, and the write when change is set.
AddComments ==
  /\ pc = "add"
  /\ LET r == addComments(src, root, jsonDocs)
     IN /\ newSrc' = r.src
        /\ change' = r.change
        /\ globalDecls' = findGlobalDecls(root)
        /\ IF r.change
           THEN \/ wrote' = TRUE /\ pc' = "next" /\ err' = err
                \/ wrote' = FALSE /\ pc' = "fatal" /\ err' = "write"
           ELSE wrote' = FALSE /\ pc' = "next" /\ err' = err
  /\ UNCHANGED <<src, root, fileNo, jsonDocs, comments, merged, decls, docComments,
                 commentFromIdent, warned, stores, output, normVars>>

\* The loop moves to the next source path; srcFile, src and change are
\* locals of the loop body and start afresh.
NextFile ==
  /\ pc = "next"
  /\ fileNo' = fileNo + 1
  /\ pc' = "loop"
  /\ src' = <<>> /\ err' = "nil"
  /\ root' = Node("TranslationUnit", "", NoLoc, <<>>)
  /\ globalDecls' = <<>>
  /\ newSrc' = <<>> /\ change' = FALSE /\ wrote' = FALSE
  /\ UNCHANGED <<jsonDocs, comments, merged, decls, docComments, commentFromIdent,
                 warned, stores, output, normVars>>

\* No source path is left.
Finish ==
  /\ pc = "loop"
  /\ pc' = "done"
  /\ UNCHANGED <<src, err, fileNo, injectVars, parseVars, commentFromIdent, warned,
                 stores, output, normVars>>

NextInject ==
  ParseDocComments \/ ParseSourceFile \/ ParseSourceFileUnreadable \/ AddComments
    \/ NextFile \/ Finish

SpecInject == InitInject /\ [][NextInject]_vars

(***************************************************************************)
(* SpecRoundTrip: the extractor run on one source file, then the injector  *)
(* run with the JSON file it wrote on the same, unmodified source file.    *)
(* The JSON file holds a flat object of strings; writing and reading it    *)
(* back gives the same map.                                                *)
(***************************************************************************)
InitRoundTrip ==
  /\ pc = "extract"
  /\ src \in Texts
  /\ IdleParse /\ IdleExtract /\ IdleInject /\ IdleNorm

\* The extractor: parse on the file, then the JSON output.
Extract ==
  /\ pc = "extract"
  /\ LET p == parse(src, [m |-> commentFromIdent, w |-> warned, s |-> stores])
     IN /\ comments' = p.comments
        /\ merged' = p.merged
        /\ root' = p.root
        /\ decls' = p.decls
        /\ docComments' = p.docComments
        /\ commentFromIdent' = p.st.m
        /\ warned' = p.st.w
        /\ stores' = p.st.s
        /\ output' = [written |-> TRUE, json |-> p.st.m]
  /\ fileNo' = 1
  /\ pc' = "inject"
  /\ UNCHANGED <<src, err, globalDecls, injectVars, normVars>>

\* The injector: the JSON file is loaded and addComments runs on the file.
Inject ==
  /\ pc = "inject"
  /\ jsonDocs' = output.json
  /\ LET r == addComments(src, root, output.json)
     IN /\ newSrc' = r.src
        /\ change' = r.change
        /\ wrote' = r.change
  /\ globalDecls' = findGlobalDecls(root)
  /\ pc' = "injected"
  /\ UNCHANGED <<src, root, comments, merged, decls, docComments, extractVars, normVars>>

NextRoundTrip == Extract \/ Inject

SpecRoundTrip == InitRoundTrip /\ [][NextRoundTrip]_vars

(***************************************************************************)
(* SpecNorm: normalizeComment on a stored comment, and the text addComments*)
(* produces when that comment is stored for the one declaration of a file. *)
(***************************************************************************)
CommentChars == {"/", "a", NL}

CommentStrings == UNION {[1..n -> CommentChars] : n \in 0..MaxCommentLen}

OneDeclFile == TextOf(<<LnX>>)

InitNorm ==
  /\ pc = "norm"
  /\ comment \in CommentStrings
  /\ normalized = <<>>
  /\ src = OneDeclFile
  /\ IdleParse /\ IdleExtract /\ IdleInject

Normalize ==
  /\ pc = "norm"
  /\ normalized' = normalizeComment(comment)
  /\ jsonDocs' = [k \in {"x"} |-> comment]
  /\ LET r == addComments(src, ParseFile(src), [k \in {"x"} |-> comment])
     IN /\ newSrc' = r.src
        /\ change' = r.change
        /\ wrote' = r.change
  /\ pc' = "normalized"
  /\ UNCHANGED <<src, comment, parseVars, extractVars>>

NextNorm == Normalize

SpecNorm == InitNorm /\ [][NextNorm]_vars

(***************************************************************************)
(* SpecDecls: findDecls and findGlobalDecls on a declaration tree.  The    *)
(* root has up to MaxKids children, each one of six shapes, the child at   *)
(* index l located on line l; rev gives the children in reverse order of   *)
(* their locations (as when nodes of an included file come first).         *)
(***************************************************************************)
At(l, c) == [Line |-> l, Col |-> c]

Shapes == {"var", "proto", "func", "ns", "nsdeep", "struct"}

Shape(sh, l) ==
  CASE sh = "var" -> Node("VarDecl", "x", At(l, 1), <<>>)
    [] sh = "proto" -> Node("FunctionDecl", "y", At(l, 1), <<>>)
    [] sh = "func" ->
         Node("FunctionDecl", "y", At(l, 1),
              <<Node("Other", "", At(l, 3),
                     <<Node("VarDecl", "x", At(l, 5), <<>>)>>)>>)
    [] sh = "ns" ->
         Node("Namespace", "n", At(l, 1), <<Node("VarDecl", "x", At(l, 3), <<>>)>>)
    [] sh = "nsdeep" ->
         Node("Namespace", "n", At(l, 1),
              <<Node("Namespace", "m", At(l, 3),
                     <<Node("FunctionDecl", "y", At(l, 5), <<>>)>>),
                Node("VarDecl", "x", At(l, 7), <<>>)>>)
    [] sh = "struct" ->
         Node("Other", "s", At(l, 1), <<Node("Other", "f", At(l, 3), <<>>)>>)

Reverse(q) == [i \in 1..Len(q) |-> q[Len(q) + 1 - i]]

Tree(shs, rev) ==
  LET kids == [l \in 1..Len(shs) |-> Shape(shs[l], l)]
  IN Node("TranslationUnit", "", NoLoc, IF rev THEN Reverse(kids) ELSE kids)

Trees ==
  {Tree(shs, rev) : shs \in UNION {[1..n -> Shapes] : n \in 0..MaxKids}, rev \in BOOLEAN}

InitDecls ==
  /\ pc = "find"
  /\ root \in Trees
  /\ src = <<>>
  /\ comments = <<>> /\ merged = <<>> /\ docComments = <<>>
  /\ decls = <<>> /\ globalDecls = <<>>
  /\ IdleExtract /\ IdleInject /\ IdleNorm

\* The extractor's findDecls on the tree.
FindDecls ==
  /\ pc = "find"
  /\ decls' = findDecls(root)
  /\ pc' = "findGlobal"
  /\ UNCHANGED <<src, root, comments, merged, globalDecls, docComments, extractVars,
                 injectVars, normVars>>

\* The injector's findGlobalDecls on the same tree.
FindGlobalDecls ==
  /\ pc = "findGlobal"
  /\ globalDecls' = findGlobalDecls(root)
  /\ pc' = "found"
  /\ UNCHANGED <<src, root, comments, merged, decls, docComments, extractVars,
                 injectVars, normVars>>

NextDecls == FindDecls \/ FindGlobalDecls

SpecDecls == InitDecls /\ [][NextDecls]_vars

(***************************************************************************)
(* Claims about parse's pure steps, checked under SpecParse.               *)
(***************************************************************************)
IsLineComment(c) == HasPrefix(c.Lit, <<"/", "/">>)

EndLine(c) == c.Loc.Line + Count(c.Lit, NL)

\* b is a line comment starting exactly one line after the end line of the
\* line comment a.
Follows(a, b) == IsLineComment(a) /\ IsLineComment(b) /\ b.Loc.Line = EndLine(a) + 1

\* The indices of the run of line comments that starts at index s of cs.
RECURSIVE RunFrom(_, _)
RunFrom(cs, s) ==
  LET nxt == {j \in DOMAIN cs : Follows(cs[s], cs[j])}
  IN IF nxt = {} THEN <<s>>
     ELSE <<s>> \o RunFrom(cs, CHOOSE j \in nxt : \A k \in nxt : j <= k)

RunStarts(cs) ==
  {s \in DOMAIN cs : IsLineComment(cs[s]) /\ ~\E p \in DOMAIN cs : Follows(cs[p], cs[s])}

\* The output comment m holds the literal of the scanned line comment c as
\* the line that c's line number gives.
Covers(m, c) ==
  /\ IsLineComment(m)
  /\ LET ls == Split(m.Lit)
         k == c.Loc.Line - m.Loc.Line + 1
     IN k \in 1..Len(ls) /\ ls[k] = c.Lit

\* C4: mergeLineComments turns every maximal run of two or more line
\* comments on consecutive lines into exactly one Comment: the literals of
\* the run joined by newline, at the position of the first comment of the
\* run, and no other output comment is at the position of a member of the
\* run.
C4_RunBecomesOneComment ==
  pc = "parsed" =>
    \A s \in RunStarts(comments) :
      LET run == RunFrom(comments, s)
          lits == [k \in 1..Len(run) |-> comments[run[k]].Lit]
          locs == {comments[run[k]].Loc : k \in 1..Len(run)}
      IN Len(run) >= 2 =>
           /\ Cardinality({m \in DOMAIN merged : merged[m].Loc \in locs}) = 1
           /\ \E m \in DOMAIN merged :
                /\ merged[m] = [Lit |-> Join(lits), Loc |-> comments[s].Loc]
                /\ Count(merged[m].Lit, NL) + 1 = Len(run)

\* C10: mergeLineComments conserves its input: every block comment is in
\* the output unchanged exactly once, every line comment's literal is in
\* exactly one output comment, and the output is in position order.
C10_MergeConserves ==
  pc = "parsed" =>
    /\ \A k \in DOMAIN comments :
         ~IsLineComment(comments[k]) =>
           Cardinality({m \in DOMAIN merged : merged[m] = comments[k]}) = 1
    /\ \A k \in DOMAIN comments :
         IsLineComment(comments[k]) =>
           Cardinality({m \in DOMAIN merged : Covers(merged[m], comments[k])}) = 1
    /\ \A i, j \in DOMAIN merged : i < j => less(merged[i].Loc, merged[j].Loc)

\* The comment c ends before the position loc.  A line comment runs to the
\* end of its line; a block comment ends at the last character of its
\* literal.
EndsBefore(c, loc) ==
  IF IsLineComment(c) THEN EndLine(c) < loc.Line
  ELSE LET ls == Split(c.Lit)
           endCol == IF Len(ls) = 1 THEN c.Loc.Col + Len(c.Lit) - 1 ELSE Len(ls[Len(ls)])
       IN less([Line |-> EndLine(c), Col |-> endCol], loc)

\* Comment c of merged immediately precedes declaration d of decls: c ends
\* before d, on d's start line or on the line before, no later comment
\* starts before d, and no declaration lies between c's start and d.
ImmediatelyPrecedes(c, d) ==
  /\ EndsBefore(merged[c], decls[d].Loc)
  /\ EndLine(merged[c]) \in {decls[d].Loc.Line, decls[d].Loc.Line - 1}
  /\ \A c2 \in DOMAIN merged : c2 > c => ~less(merged[c2].Loc, decls[d].Loc)
  /\ \A d2 \in DOMAIN decls :
       ~(less(merged[c].Loc, decls[d2].Loc) /\ less(decls[d2].Loc, decls[d].Loc))

\* C3: for every declaration D and the comment C that immediately precedes
\* it, addDocComments returns exactly one DocComment for D, and its comment
\* is C (no earlier comment is paired with D).
C3_AdoptsNearestOnly ==
  pc = "parsed" =>
    \A d \in DOMAIN decls : \A c \in DOMAIN merged :
      ImmediatelyPrecedes(c, d) =>
        LET forD == {k \in DOMAIN docComments : docComments[k].Decl = decls[d]}
        IN /\ Cardinality(forD) = 1
           /\ \A k \in forD : docComments[k].Comment = merged[c]

(***************************************************************************)
(* Claims about the extractor's main loop, checked under SpecExtract.      *)
(***************************************************************************)
\* C5 as claimed: an error while processing one source file is only a
\* warning; the file is skipped and the run goes on to the later files and
\* to writing the JSON output.
C5_ErrorSkipsFileOnly == err \in {"read", "clang"} => pc # "fatal"

\* C5 as amended: an error returned by parse for a source file is fatal: the
\* run stops at that file and the JSON output is not written.
C5_ParseErrorIsFatal ==
  err \in {"read", "clang"} => pc = "fatal" /\ output = NotWritten

\* A parse error on a later file, after earlier files filled the mapping.
C5_Witness ==
  /\ err = "clang"
  /\ pc = "fatal"
  /\ fileNo >= 2
  /\ commentFromIdent # EmptyMap

\* The last store of identifier id in the record of stores.
LastStore(id) ==
  LET ks == {k \in DOMAIN stores : stores[k].ident = id}
  IN stores[CHOOSE k \in ks : \A j \in ks : j <= k]

\* After every store the map held the new value, and the map now holds,
\* for each identifier ever stored, the value stored last.
StoreOverwrites ==
  /\ \A k \in DOMAIN stores : stores[k].after = stores[k].new
  /\ DOMAIN commentFromIdent = {stores[k].ident : k \in DOMAIN stores}
  /\ \A id \in DOMAIN commentFromIdent : commentFromIdent[id] = LastStore(id).new

\* C6 as claimed: a store logs a conflict warning if and only if the
\* identifier is already in the mapping with a different value, and the
\* mapping holds the new value afterwards.
C6_WarnsIffDifferent ==
  /\ \A k \in DOMAIN stores :
       stores[k].warns <=> (stores[k].had /\ stores[k].old # stores[k].new)
  /\ StoreOverwrites

\* C6 as amended: a store logs a warning if and only if the identifier is
\* already in the mapping, whatever its value (also when the stored value
\* equals the new one), and the mapping holds the new value afterwards.
C6_WarnsIffPresent ==
  /\ \A k \in DOMAIN stores : stores[k].warns <=> stores[k].had
  /\ Len(warned) = Cardinality({k \in DOMAIN stores : stores[k].had})
  /\ StoreOverwrites

\* A store of a value equal to the one already held, which logged a warning,
\* after a store of a differing value and a first insertion.
C6_Witness ==
  /\ \E k \in DOMAIN stores :
       stores[k].had /\ stores[k].old = stores[k].new /\ stores[k].warns
  /\ \E k \in DOMAIN stores :
       stores[k].had /\ stores[k].old # stores[k].new /\ stores[k].warns
  /\ \E k \in DOMAIN stores : ~stores[k].had /\ ~stores[k].warns

(***************************************************************************)
(* Claims about the injector, checked under SpecInject.                    *)
(***************************************************************************)
Range(q) == {q[i] : i \in DOMAIN q}

\* C1: when no key of the mapping is the spelled name of a declaration found
\* in the file, addComments returns the original text and change = false,
\* and main does not write the file.
C1_NoMatchNoChange ==
  (pc = "next"
     /\ \A k \in DOMAIN globalDecls : globalDecls[k].Spelling \notin DOMAIN jsonDocs)
    => newSrc = src /\ change = FALSE /\ wrote = FALSE

\* The declarations found on line l whose name the mapping holds.
Stored(l) ==
  {k \in DOMAIN globalDecls :
     globalDecls[k].Loc.Line = l /\ globalDecls[k].Spelling \in DOMAIN jsonDocs}

\* The lines inserted before line l: those of the normalized comment of the
\* last such declaration; none when there is no such declaration.
Inserted(l) ==
  IF Stored(l) = {} THEN <<>>
  ELSE LET k == CHOOSE k \in Stored(l) : \A j \in Stored(l) : j <= k
       IN Split(normalizeComment(jsonDocs[globalDecls[k].Spelling]))

\* The number of lines inserted before lines 1..l.
RECURSIVE InsertedUpTo(_)
InsertedUpTo(l) == IF l = 0 THEN 0 ELSE InsertedUpTo(l - 1) + Len(Inserted(l))

\* C8: the text addComments produces holds every original line unmodified
\* and in the original order, and the lines of each inserted comment stand
\* immediately before the line at which its declaration starts.  (The one
\* line the output has beyond these is the empty piece after the final
\* newline.)
C8_LinesPreserved ==
  pc = "next" =>
    LET old == Split(src)
        out == Split(newSrc)
    IN /\ Len(out) = Len(old) + InsertedUpTo(Len(old)) + 1
       /\ out[Len(out)] = <<>>
       /\ \A l \in 1..Len(old) :
            /\ out[l + InsertedUpTo(l)] = old[l]
            /\ SubSeq(out, l + InsertedUpTo(l - 1), l + InsertedUpTo(l) - 1) = Inserted(l)

\* addComments has inserted comments before two different lines, one of
\* several lines, and one before a line that holds two stored declarations.
C8_Witness ==
  /\ pc = "next"
  /\ Cardinality({l \in 1..Len(Split(src)) : Stored(l) # {}}) >= 2
  /\ \E l \in 1..Len(Split(src)) : Len(Inserted(l)) >= 2
  /\ \E l \in 1..Len(Split(src)) : Cardinality(Stored(l)) >= 2

(***************************************************************************)
(* Claim about the round trip, checked under SpecRoundTrip.                *)
(***************************************************************************)
\* C2: injecting the mapping extracted from a file into the same, unmodified
\* file gives text identical to the original.
C2_RoundTripIdentity == pc = "injected" => newSrc = src

(***************************************************************************)
(* Claim about normalizeComment, checked under SpecNorm.                   *)
(***************************************************************************)
TripleSlash(line) ==
  Len(line) >= 3 /\ line[1] = "/" /\ line[2] = "/" /\ line[3] = "/"

\* C9: normalizeComment keeps the number and order of the lines, removes
\* exactly one leading slash from each line that begins with three slashes
\* and copies every other line; the text injected is the normalized comment.
C9_NormalizeStripsOneSlash ==
  pc = "normalized" =>
    LET in == Split(comment)
        out == Split(normalized)
    IN /\ Len(out) = Len(in)
       /\ \A i \in 1..Len(in) :
            IF TripleSlash(in[i]) THEN <<"/">> \o out[i] = in[i] ELSE out[i] = in[i]
       /\ newSrc = normalized \o <<NL>> \o src \o <<NL>>

\* A comment of two lines or more, one beginning with four slashes and one
\* that does not begin with three.
C9_Witness ==
  /\ pc = "normalized"
  /\ \E i \in 1..Len(Split(comment)) :
       TripleSlash(Split(comment)[i]) /\ Len(Split(comment)[i]) >= 4
         /\ Split(comment)[i][4] = "/"
  /\ \E i \in 1..Len(Split(comment)) :
       ~TripleSlash(Split(comment)[i]) /\ Split(comment)[i] # <<>>

(***************************************************************************)
(* Claims about the declaration lists, checked under SpecDecls.            *)
(***************************************************************************)
Kids(n) == Range(n.Children)

KidsOfAll(ns) == UNION {Kids(n) : n \in ns}

\* Every node below the root (the drawn trees are at most four deep).
Below(r) ==
  Kids(r) \cup KidsOfAll(Kids(r)) \cup KidsOfAll(KidsOfAll(Kids(r)))
    \cup KidsOfAll(KidsOfAll(KidsOfAll(Kids(r))))

DeclsAmong(ns) == {n \in ns : n.Kind \in {"VarDecl", "FunctionDecl"}}

\* The top-level scope: the namespace when it is the only top-level node,
\* the root otherwise.
TopScope(r) ==
  IF Len(r.Children) = 1 /\ r.Children[1].Kind = "Namespace" THEN r.Children[1] ELSE r

GlobalScope(r) ==
  LET ns == {i \in DOMAIN r.Children : r.Children[i].Kind = "Namespace"}
  IN IF ns = {} THEN r ELSE r.Children[CHOOSE i \in ns : \A j \in ns : j <= i]

====
